---------------------------- MODULE Spec2Model ----------------------------
(***************************************************************************)
(* Model of the configuration store of src/src/Storage.cpp: the JSON       *)
(* encoded coffee_config kept in a 4096 byte EEPROM region, its validity   *)
(* check, setup, load, save, default population, factory reset and commit, *)
(* and the skipHeaterISR flag shared with the heater interrupt.            *)
(*                                                                         *)
(* Bytes are integers 0..255.  A numeric field (a C double) is modelled as *)
(* a number of tenths: 125 stands for 12.5, -30 for -3.0.  A text field is *)
(* a sequence of bytes without the terminating NUL.                        *)
(***************************************************************************)
EXTENDS Integers, Sequences, FiniteSets, TLC

(***************************************************************************)
(* Program constants                                                       *)
(***************************************************************************)
EEPROM_SIZE == 4096

JSON_BUFFER_SIZE == 512

\* sizeof(config.wifiSSID), sizeof(config.wifiPassword): 25 + 1
WIFI_TEXT_SIZE == 26

\* '{', the first byte of a serialized JSON object
MARKER == 123

\* the pattern storageFactoryReset() fills the region with
BLANK == 255

\* '\0', the terminator of the stored string
NUL == 0

(***************************************************************************)
(* The JSON text format of ArduinoJson, as far as the store uses it.       *)
(***************************************************************************)
Chr ==
  [ quote |-> 34, comma |-> 44, minus |-> 45, dot |-> 46, slash |-> 47,
    zero |-> 48, nine |-> 57, colon |-> 58, lbracket |-> 91,
    backslash |-> 92, rbracket |-> 93, rbrace |-> 125, eof |-> -1 ]

TrueText  == << 116, 114, 117, 101 >>            \* true
FalseText == << 102, 97, 108, 115, 101 >>        \* false
NullText  == << 110, 117, 108, 108 >>            \* null

\* The member names of the JSON object, as the bytes of the string literals
\* jsonDoc["..."] of loadCoffeeConfig and saveCoffeeConfig.
KeyBytes ==
  [ pidKpRegular             |-> << 112, 105, 100, 75, 112, 82, 101, 103, 117, 108, 97, 114 >>,
    pidTnRegular             |-> << 112, 105, 100, 84, 110, 82, 101, 103, 117, 108, 97, 114 >>,
    pidOn                    |-> << 112, 105, 100, 79, 110 >>,
    pidTvRegular             |-> << 112, 105, 100, 84, 118, 82, 101, 103, 117, 108, 97, 114 >>,
    pidIMaxRegular           |-> << 112, 105, 100, 73, 77, 97, 120, 82, 101, 103, 117, 108, 97, 114 >>,
    brewSetpoint             |-> << 98, 114, 101, 119, 83, 101, 116, 112, 111, 105, 110, 116 >>,
    brewTempOffset           |-> << 98, 114, 101, 119, 84, 101, 109, 112, 79, 102, 102, 115, 101, 116 >>,
    brewTimeMs               |-> << 98, 114, 101, 119, 84, 105, 109, 101, 77, 115 >>,
    preInfusionTimeMs        |-> << 112, 114, 101, 73, 110, 102, 117, 115, 105, 111, 110, 84, 105, 109, 101, 77, 115 >>,
    preInfusionPauseMs       |-> << 112, 114, 101, 73, 110, 102, 117, 115, 105, 111, 110, 80, 97, 117, 115, 101, 77, 115 >>,
    pidBdOn                  |-> << 112, 105, 100, 66, 100, 79, 110 >>,
    pidKpBd                  |-> << 112, 105, 100, 75, 112, 66, 100 >>,
    pidTnBd                  |-> << 112, 105, 100, 84, 110, 66, 100 >>,
    pidTvBd                  |-> << 112, 105, 100, 84, 118, 66, 100 >>,
    brewSwTimeSec            |-> << 98, 114, 101, 119, 83, 119, 84, 105, 109, 101, 83, 101, 99 >>,
    brewPIDDelaySec          |-> << 98, 114, 101, 119, 80, 73, 68, 68, 101, 108, 97, 121, 83, 101, 99 >>,
    freeToUse10              |-> << 102, 114, 101, 101, 84, 111, 85, 115, 101, 49, 48 >>,
    brewDetectionThreshold   |-> << 98, 114, 101, 119, 68, 101, 116, 101, 99, 116, 105, 111, 110, 84, 104, 114, 101, 115, 104, 111, 108, 100 >>,
    wifiCredentialsSaved     |-> << 119, 105, 102, 105, 67, 114, 101, 100, 101, 110, 116, 105, 97, 108, 115, 83, 97, 118, 101, 100 >>,
    useStartPonM             |-> << 117, 115, 101, 83, 116, 97, 114, 116, 80, 111, 110, 77 >>,
    pidKpStart               |-> << 112, 105, 100, 75, 112, 83, 116, 97, 114, 116 >>,
    softApEnabledCheck       |-> << 115, 111, 102, 116, 65, 112, 69, 110, 97, 98, 108, 101, 100, 67, 104, 101, 99, 107 >>,
    pidTnStart               |-> << 112, 105, 100, 84, 110, 83, 116, 97, 114, 116 >>,
    wifiSSID                 |-> << 119, 105, 102, 105, 83, 83, 73, 68 >>,
    wifiPassword             |-> << 119, 105, 102, 105, 80, 97, 115, 115, 119, 111, 114, 100 >>,
    weightSetpoint           |-> << 119, 101, 105, 103, 104, 116, 83, 101, 116, 112, 111, 105, 110, 116 >>,
    steamkp                  |-> << 115, 116, 101, 97, 109, 107, 112 >>,
    steamSetpoint            |-> << 115, 116, 101, 97, 109, 83, 101, 116, 112, 111, 105, 110, 116 >>,
    standbyModeOn            |-> << 115, 116, 97, 110, 100, 98, 121, 77, 111, 100, 101, 79, 110 >>,
    standbyModeTime          |-> << 115, 116, 97, 110, 100, 98, 121, 77, 111, 100, 101, 84, 105, 109, 101 >> ]

\* A save that leaves out a member: brewSetpoint is never put into the document.
SaveFields_NoSetpoint ==
  << "pidKpRegular", "pidTnRegular", "pidOn", "pidTvRegular", "pidIMaxRegular",
     "brewTempOffset", "brewTimeMs", "preInfusionTimeMs",
     "preInfusionPauseMs", "pidBdOn", "pidKpBd", "pidTnBd", "pidTvBd",
     "brewSwTimeSec", "brewPIDDelaySec", "brewDetectionThreshold",
     "wifiCredentialsSaved", "useStartPonM", "pidKpStart", "softApEnabledCheck",
     "pidTnStart", "wifiSSID", "wifiPassword", "weightSetpoint", "steamkp",
     "steamSetpoint", "standbyModeOn", "standbyModeTime" >>

\* The members saveCoffeeConfig() puts into the document, in its order.
SaveFields ==
  << "pidKpRegular", "pidTnRegular", "pidOn", "pidTvRegular", "pidIMaxRegular",
     "brewSetpoint", "brewTempOffset", "brewTimeMs", "preInfusionTimeMs",
     "preInfusionPauseMs", "pidBdOn", "pidKpBd", "pidTnBd", "pidTvBd",
     "brewSwTimeSec", "brewPIDDelaySec", "brewDetectionThreshold",
     "wifiCredentialsSaved", "useStartPonM", "pidKpStart", "softApEnabledCheck",
     "pidTnStart", "wifiSSID", "wifiPassword", "weightSetpoint", "steamkp",
     "steamSetpoint", "standbyModeOn", "standbyModeTime" >>

\* The members loadCoffeeConfig() reads, with the type of its as<T>(): the type
\* of the field of coffee_config it assigns.
FieldType ==
  [ pidKpRegular |-> "double", pidTnRegular |-> "double", pidOn |-> "bool",
    pidTvRegular |-> "double", pidIMaxRegular |-> "double",
    brewSetpoint |-> "double", brewTempOffset |-> "double",
    brewTimeMs |-> "double", preInfusionTimeMs |-> "double",
    preInfusionPauseMs |-> "double", pidBdOn |-> "bool", pidKpBd |-> "double",
    pidTnBd |-> "double", pidTvBd |-> "double", brewSwTimeSec |-> "double",
    brewPIDDelaySec |-> "double", freeToUse10 |-> "bool",
    brewDetectionThreshold |-> "double", wifiCredentialsSaved |-> "bool",
    useStartPonM |-> "bool", pidKpStart |-> "double",
    softApEnabledCheck |-> "bool", pidTnStart |-> "double",
    wifiSSID |-> "text", wifiPassword |-> "text", weightSetpoint |-> "double",
    steamkp |-> "double", steamSetpoint |-> "double", standbyModeOn |-> "bool",
    standbyModeTime |-> "double" ]

\* The fields of struct coffee_config.
ConfigFields == DOMAIN FieldType

(***************************************************************************)
(* serializeJson(): the document as text, members in insertion order,      *)
(* without white space.                                                    *)
(***************************************************************************)
RECURSIVE WriteInteger(_)
WriteInteger(n) ==
  IF n < 10 THEN << Chr.zero + n >>
  ELSE Append(WriteInteger(n \div 10), Chr.zero + (n % 10))

\* A double: sign, integral part, and the decimals only when there are any.
WriteFloat(v) ==
  LET a == IF v < 0 THEN -v ELSE v
  IN  (IF v < 0 THEN << Chr.minus >> ELSE << >>)
      \o WriteInteger(a \div 10)
      \o (IF a % 10 # 0 THEN << Chr.dot, Chr.zero + (a % 10) >> ELSE << >>)

WriteBool(b) == IF b THEN TrueText ELSE FalseText

RECURSIVE WriteEscaped(_)
WriteEscaped(t) ==
  IF t = << >> THEN << >>
  ELSE (IF Head(t) \in {Chr.quote, Chr.backslash}
        THEN << Chr.backslash, Head(t) >> ELSE << Head(t) >>)
       \o WriteEscaped(Tail(t))

WriteString(t) == << Chr.quote >> \o WriteEscaped(t) \o << Chr.quote >>

WriteVariant(m) ==
  CASE m.t = "double" -> WriteFloat(m.v)
    [] m.t = "bool"   -> WriteBool(m.v)
    [] m.t = "text"   -> WriteString(m.v)
    [] OTHER          -> NullText

RECURSIVE WriteMembers(_)
WriteMembers(doc) ==
  IF doc = << >> THEN << >>
  ELSE WriteString(Head(doc).k) \o << Chr.colon >> \o WriteVariant(Head(doc))
       \o (IF Len(doc) > 1 THEN << Chr.comma >> ELSE << >>)
       \o WriteMembers(Tail(doc))

serializeJson(doc) == << MARKER >> \o WriteMembers(doc) \o << Chr.rbrace >>

(***************************************************************************)
(* deserializeJson(): parses the first JSON value of the input and ignores *)
(* what follows it.  The result is [error, doc]; doc is the sequence of    *)
(* the members [k, t, v] of the top-level object.                          *)
(***************************************************************************)
At(s, i) == IF i >= 1 /\ i <= Len(s) THEN s[i] ELSE Chr.eof

IsSpace(c) == c \in {9, 10, 13, 32}

IsDigit(c) == c >= Chr.zero /\ c <= Chr.nine

RECURSIVE SkipSpace(_, _)
SkipSpace(s, i) == IF IsSpace(At(s, i)) THEN SkipSpace(s, i + 1) ELSE i

\* Record constructors throughout list their fields in the order in which the
\* field names first occur in this module, which is the order TLC keeps them
\* in; a constructor written in another order is re-sorted in place when first
\* used, which is not safe when two workers use the same value.
Fail == [v |-> 0, t |-> "null", ok |-> FALSE, next |-> 0]

\* The body of a string from position i, after the opening quote.
RECURSIVE ParseQuoted(_, _, _)
ParseQuoted(s, i, acc) ==
  LET c == At(s, i)
  IN  IF c = Chr.quote THEN [v |-> acc, t |-> "text", ok |-> TRUE, next |-> i + 1]
      ELSE IF c = Chr.eof \/ c = NUL THEN Fail
      ELSE IF c = Chr.backslash
           THEN IF At(s, i + 1) \in {Chr.quote, Chr.slash, Chr.backslash}
                THEN ParseQuoted(s, i + 2, Append(acc, At(s, i + 1)))
                ELSE Fail
      ELSE ParseQuoted(s, i + 1, Append(acc, c))

\* A run of digits from position i: its value and the position after it.
RECURSIVE ParseDigits(_, _, _)
ParseDigits(s, i, acc) ==
  IF IsDigit(At(s, i)) THEN ParseDigits(s, i + 1, acc * 10 + (At(s, i) - Chr.zero))
  ELSE [v |-> acc, next |-> i]

\* A number: -? digits (. digits)?, its value in tenths.
ParseNumber(s, i) ==
  LET neg  == At(s, i) = Chr.minus
      j    == IF neg THEN i + 1 ELSE i
      int  == ParseDigits(s, j, 0)
      frac == ParseDigits(s, int.next + 1, 0)
      hasF == At(s, int.next) = Chr.dot
      tenth == IF hasF THEN At(s, int.next + 1) - Chr.zero ELSE 0
      mag  == int.v * 10 + tenth
  IN  IF int.next = j THEN Fail
      ELSE IF hasF /\ frac.next = int.next + 1 THEN Fail
      ELSE [v |-> IF neg THEN -mag ELSE mag, t |-> "double", ok |-> TRUE,
            next |-> IF hasF THEN frac.next ELSE int.next]

\* Whether the bytes of word stand at position i.
Matches(s, i, word) == \A k \in 1..Len(word) : At(s, i + k - 1) = word[k]

RECURSIVE ParseValue(_, _)
RECURSIVE ParseMembers(_, _, _)
RECURSIVE ParseElements(_, _)

\* The members of an object from position i, the first byte of a member.
ParseMembers(s, i, acc) ==
  IF At(s, i) # Chr.quote THEN Fail
  ELSE LET key == ParseQuoted(s, i + 1, << >>)
           c   == SkipSpace(s, key.next)
           val == ParseValue(s, SkipSpace(s, c + 1))
           e   == SkipSpace(s, val.next)
           doc == Append(acc, [v |-> val.v, t |-> val.t, k |-> key.v])
       IN  IF ~key.ok \/ At(s, c) # Chr.colon THEN Fail
           ELSE IF ~val.ok THEN Fail
           ELSE IF At(s, e) = Chr.comma THEN ParseMembers(s, SkipSpace(s, e + 1), doc)
           ELSE IF At(s, e) = Chr.rbrace
                THEN [v |-> doc, t |-> "object", ok |-> TRUE, next |-> e + 1]
           ELSE Fail

\* The elements of an array from position i, the first byte of an element.
ParseElements(s, i) ==
  LET val == ParseValue(s, i)
      e   == SkipSpace(s, val.next)
  IN  IF ~val.ok THEN Fail
      ELSE IF At(s, e) = Chr.comma THEN ParseElements(s, SkipSpace(s, e + 1))
      ELSE IF At(s, e) = Chr.rbracket
           THEN [v |-> 0, t |-> "array", ok |-> TRUE, next |-> e + 1]
      ELSE Fail

ParseValue(s, i) ==
  LET c == At(s, i)
  IN  IF c = MARKER
      THEN LET j == SkipSpace(s, i + 1)
           IN  IF At(s, j) = Chr.rbrace
               THEN [v |-> << >>, t |-> "object", ok |-> TRUE, next |-> j + 1]
               ELSE ParseMembers(s, j, << >>)
      ELSE IF c = Chr.lbracket
      THEN LET j == SkipSpace(s, i + 1)
           IN  IF At(s, j) = Chr.rbracket
               THEN [v |-> 0, t |-> "array", ok |-> TRUE, next |-> j + 1]
               ELSE ParseElements(s, j)
      ELSE IF c = Chr.quote THEN ParseQuoted(s, i + 1, << >>)
      ELSE IF c = Chr.minus \/ IsDigit(c) THEN ParseNumber(s, i)
      ELSE IF Matches(s, i, TrueText)
           THEN [v |-> TRUE, t |-> "bool", ok |-> TRUE, next |-> i + Len(TrueText)]
      ELSE IF Matches(s, i, FalseText)
           THEN [v |-> FALSE, t |-> "bool", ok |-> TRUE, next |-> i + Len(FalseText)]
      ELSE IF Matches(s, i, NullText)
           THEN [v |-> 0, t |-> "null", ok |-> TRUE, next |-> i + Len(NullText)]
      ELSE Fail

deserializeJson(s) ==
  LET val == ParseValue(s, SkipSpace(s, 1))
  IN  [doc   |-> IF val.ok /\ val.t = "object" THEN val.v ELSE << >>,
       error |-> ~val.ok]

(***************************************************************************)
(* The compiled-in defaults.  defaults.h is not part of the sources at     *)
(* hand; the values (in tenths) are those of the stock firmware and only   *)
(* their being fixed matters here.                                         *)
(***************************************************************************)
defaults_h ==
  [ AGGKP |-> 620, AGGTN |-> 520, AGGTV |-> 115, AGGIMAX |-> 550,
    SETPOINT |-> 950, TEMPOFFSET |-> 0, BREW_TIME |-> 250,
    PRE_INFUSION_TIME |-> 20, PRE_INFUSION_PAUSE_TIME |-> 50,
    AGGBKP |-> 500, AGGBTN |-> 0, AGGBTV |-> 200, BREW_SW_TIME |-> 250,
    BREW_PID_DELAY |-> 100, BD_SENSITIVITY |-> 1200,
    WIFI_CREDENTIALS_SAVED |-> FALSE, STARTKP |-> 450, STARTTN |-> 1300,
    SCALE_WEIGHTSETPOINT |-> 300, STEAMKP |-> 1500, STEAMSETPOINT |-> 1200,
    STANDBY_MODE_TIME |-> 300 ]

\* The local config of SetDefault() when it calls saveCoffeeConfig().  The
\* function never assigns config.freeToUse10: the record has no such field.
DefaultConfig ==
  [ pidKpRegular |-> defaults_h.AGGKP,
    pidTnRegular |-> defaults_h.AGGTN,
    pidOn |-> FALSE,
    pidTvRegular |-> defaults_h.AGGTV,
    pidIMaxRegular |-> defaults_h.AGGIMAX,
    brewSetpoint |-> defaults_h.SETPOINT,
    brewTempOffset |-> defaults_h.TEMPOFFSET,
    brewTimeMs |-> defaults_h.BREW_TIME,
    preInfusionTimeMs |-> defaults_h.PRE_INFUSION_TIME,
    preInfusionPauseMs |-> defaults_h.PRE_INFUSION_PAUSE_TIME,
    pidBdOn |-> FALSE,
    pidKpBd |-> defaults_h.AGGBKP,
    pidTnBd |-> defaults_h.AGGBTN,
    pidTvBd |-> defaults_h.AGGBTV,
    brewSwTimeSec |-> defaults_h.BREW_SW_TIME,
    brewPIDDelaySec |-> defaults_h.BREW_PID_DELAY,
    brewDetectionThreshold |-> defaults_h.BD_SENSITIVITY,
    wifiCredentialsSaved |-> defaults_h.WIFI_CREDENTIALS_SAVED,
    useStartPonM |-> FALSE,
    pidKpStart |-> defaults_h.STARTKP,
    softApEnabledCheck |-> FALSE,
    pidTnStart |-> defaults_h.STARTTN,
    wifiSSID |-> << >>,
    wifiPassword |-> << >>,
    weightSetpoint |-> defaults_h.SCALE_WEIGHTSETPOINT,
    steamkp |-> defaults_h.STEAMKP,
    steamSetpoint |-> defaults_h.STEAMSETPOINT,
    standbyModeOn |-> FALSE,
    standbyModeTime |-> defaults_h.STANDBY_MODE_TIME ]

(***************************************************************************)
(* The pure parts of the store's functions.                                *)
(***************************************************************************)
\* EEPROM.read(address): the region is the sequence of its bytes, the byte
\* of address a at index a + 1.
EepromRead(region, address) == region[address + 1]

\* The JSON document saveCoffeeConfig() builds from config.
DocOf(config) ==
  [i \in 1..Len(SaveFields) |->
     [v |-> config[SaveFields[i]], t |-> FieldType[SaveFields[i]],
      k |-> KeyBytes[SaveFields[i]]]]

\* The String saveCoffeeConfig() serializes the document to.
JsonStringOf(config) == serializeJson(DocOf(config))

\* A write whose last byte depends on what the region held: it flips the byte
\* behind the string between NUL and blank instead of setting it to NUL.
SaveWrite_FlipTerminator(region, config) ==
  LET jsonString == JsonStringOf(config)
      n == Len(jsonString)
  IN  [i \in 1..EEPROM_SIZE |->
         IF i <= n THEN jsonString[i]
         ELSE IF i = n + 1 THEN (IF region[i] = NUL THEN BLANK ELSE NUL)
         ELSE region[i]]

\* A write that also blanks the region behind the terminator.
SaveWrite_BlankTail(region, config) ==
  LET jsonString == JsonStringOf(config)
      n == Len(jsonString)
  IN  [i \in 1..EEPROM_SIZE |->
         IF i <= n THEN jsonString[i]
         ELSE IF i = n + 1 THEN NUL
         ELSE BLANK]

\* The region after the write loop of saveCoffeeConfig() and its terminator;
\* EEPROM.write() ignores an address outside the region.
SaveWrite(region, config) ==
  LET jsonString == JsonStringOf(config)
      n == Len(jsonString)
  IN  [i \in 1..EEPROM_SIZE |->
         IF i <= n THEN jsonString[i]
         ELSE IF i = n + 1 THEN NUL
         ELSE region[i]]

\* A text field of config holds a text longer than the 25 bytes it has room
\* for beside the terminator.
Oversize(config) ==
  \E f \in ConfigFields : FieldType[f] = "text" /\ Len(config[f]) >= WIFI_TEXT_SIZE

\* What jsonDoc["wifiSSID"] = config.wifiSSID (and the same for wifiPassword)
\* may read.  The array is read as a C string: up to its terminator, and, when
\* the array holds none, on into the memory behind it (undefined behaviour):
\* the read then ends at once or takes along what lies behind the array, for
\* wifiSSID the text of wifiPassword, for wifiPassword one more byte.
TextsRead(config) ==
  LET behind(f) == IF Len(config[f]) < WIFI_TEXT_SIZE THEN {<< >>}
                   ELSE IF f = "wifiSSID" THEN {<< >>, config.wifiPassword}
                   ELSE {<< >>, << 63 >>}
  IN  {[config EXCEPT !.wifiSSID = @ \o a, !.wifiPassword = @ \o b] :
         a \in behind("wifiSSID"), b \in behind("wifiPassword")}

\* memset(EEPROM.getDataPtr(), 0xFF, EEPROM_SIZE)
FilledRegion == [i \in 1..EEPROM_SIZE |-> BLANK]

\* A check that stops at the marker byte and never parses the body.
validateEEPROMData_MarkerOnly(region) == EepromRead(region, 0) = MARKER

validateEEPROMData(region) ==
  IF EepromRead(region, 0) = MARKER
  THEN ~deserializeJson(region).error
  ELSE FALSE

\* A read loop that does not look for the NUL: it collects every byte of the
\* region.
ReadJsonString_NoStop(region) == region

\* The String the read loop of loadCoffeeConfig() collects: the bytes before
\* the first NUL, all EEPROM_SIZE bytes when there is none.
ReadJsonString(region) ==
  LET stop == CHOOSE i \in 1..(EEPROM_SIZE + 1) :
                /\ (i = EEPROM_SIZE + 1 \/ region[i] = NUL)
                /\ \A j \in 1..(i - 1) : region[j] # NUL
  IN  SubSeq(region, 1, stop - 1)

\* jsonDoc["name"]: the first member of that name, a null variant if none.
Member(doc, name) ==
  LET at == {i \in 1..Len(doc) : doc[i].k = KeyBytes[name]}
  IN  IF at = {} THEN [v |-> 0, t |-> "null", k |-> KeyBytes[name]]
      ELSE doc[CHOOSE i \in at : \A j \in at : i <= j]

\* as<double>(): a number as it is, a boolean as 1 or 0, a string that is a
\* number as that number, anything else as 0.
AsDouble(m) ==
  CASE m.t = "double" -> m.v
    [] m.t = "bool"   -> IF m.v THEN 10 ELSE 0
    [] m.t = "text"   -> LET n == ParseNumber(m.v, 1)
                         IN  IF n.ok /\ n.next = Len(m.v) + 1 THEN n.v ELSE 0
    [] OTHER          -> 0

\* as<bool>(): a boolean as it is, a number as "not zero", anything else false.
AsBool(m) ==
  CASE m.t = "bool"   -> m.v
    [] m.t = "double" -> m.v # 0
    [] OTHER          -> FALSE

\* as<char*>() is a null pointer unless the member is a string.
IsNullPtr(m) == m.t # "text"

\* strlcpy(dst, src, size) for a src that is not null
Strlcpy(src, size) == SubSeq(src, 1, IF Len(src) < size - 1 THEN Len(src) ELSE size - 1)

\* Lines 129-158 of loadCoffeeConfig(): the record after the assignments.
\* Where as<char*>() is null, strlcpy() reads through a null pointer; the
\* text it leaves is then one of `wild`.
ExtractConfig(doc, wild) ==
  [f \in ConfigFields |->
     CASE FieldType[f] = "double" -> AsDouble(Member(doc, f))
       [] FieldType[f] = "bool"   -> AsBool(Member(doc, f))
       [] OTHER -> IF IsNullPtr(Member(doc, f)) THEN wild
                   ELSE Strlcpy(Member(doc, f).v, WIFI_TEXT_SIZE)]

NullTextRead(doc) ==
  \E f \in ConfigFields : FieldType[f] = "text" /\ IsNullPtr(Member(doc, f))

(***************************************************************************)
(* Bounds of the model and the inputs drawn within them.                   *)
(***************************************************************************)
\* The number of different records the caller passes to saveCoffeeConfig().
MaxConfigs == 2

\* The number of different corrupt regions the device may start with.
MaxCorrupt == 2

\* "home-net-upstairs-2.4GHz-x": the text the callers' SSIDs are cut from.
NetworkText ==
  << 104, 111, 109, 101, 45, 110, 101, 116, 45, 117, 112, 115, 116, 97, 105,
     114, 115, 45, 50, 46, 52, 71, 72, 122, 45, 120 >>

\* A password with a quote and a backslash in it: pa"s\w
QuotedText == << 112, 97, 34, 115, 92, 119 >>

\* The k-th record a caller saves; every text fits its field.  The first is
\* the record of the spec's scenario B: pidKpRegular 12.5, wifiSSID home-net.
TestConfig(k) ==
  [f \in ConfigFields |->
     CASE f = "pidKpRegular"   -> 125 * k
       [] f = "brewTempOffset" -> -15 * (k - 1)
       [] f = "freeToUse10"    -> k % 2 = 0
       [] f = "pidOn"          -> k % 2 = 0
       [] f = "wifiSSID"       ->
            SubSeq(NetworkText, 1,
                   IF 8 * k < WIFI_TEXT_SIZE THEN 8 * k ELSE WIFI_TEXT_SIZE - 1)
       [] f = "wifiPassword"   -> IF k % 2 = 0 THEN QuotedText ELSE << >>
       [] OTHER                -> DefaultConfig[f]]

InputConfigs == {TestConfig(k) : k \in 1..MaxConfigs}

\* A record whose wifiSSID array is full: 26 bytes and no terminator in it,
\* a text one byte longer than the field's 25.
OversizeConfig == [TestConfig(2) EXCEPT !.wifiSSID = NetworkText]

\* The record a caller hands to loadCoffeeConfig(): no field of it has a
\* value the store would produce.
FreshConfig ==
  [f \in ConfigFields |->
     CASE FieldType[f] = "double" -> -7
       [] FieldType[f] = "bool"   -> TRUE
       [] OTHER                   -> << 63 >>]

\* A region that holds the encoding of the defaults with its last k bytes
\* lost (k odd) or with a byte of its syntax (the colon or the value after the
\* first member name) overwritten by the blank pattern (k even), in an
\* otherwise blank region.
CorruptRegion(k) ==
  LET jsonString == JsonStringOf(DefaultConfig)
      n == Len(jsonString)
  IN  [i \in 1..EEPROM_SIZE |->
         IF k % 2 = 1
         THEN (IF i <= n - k THEN jsonString[i] ELSE BLANK)
         ELSE (IF i = 14 + k THEN BLANK
               ELSE IF i <= n THEN jsonString[i]
               ELSE IF i = n + 1 THEN NUL ELSE BLANK)]

\* A region that holds a record saved earlier, longer than any the callers save.
StoredRegion == SaveWrite(FilledRegion, TestConfig(MaxConfigs + 1))

CorruptRegions == {CorruptRegion(k) : k \in 1..MaxCorrupt}

\* A region that holds jsonString and its terminator and is blank after them.
RegionOf(jsonString) ==
  [i \in 1..EEPROM_SIZE |->
     IF i <= Len(jsonString) THEN jsonString[i]
     ELSE IF i = Len(jsonString) + 1 THEN NUL ELSE BLANK]

\* The document of a firmware that did not yet have the members from
\* wifiSSID on: the defaults without them.
LegacyDoc ==
  LET n == CHOOSE i \in 1..Len(SaveFields) : SaveFields[i] = "wifiSSID"
  IN  SubSeq(DocOf(DefaultConfig), 1, n - 1)

\* A region that firmware left behind.
LegacyRegion == RegionOf(serializeJson(LegacyDoc))

\* A well-formed document with values of the wrong type: the defaults with
\* the text "hot" for the number pidKpRegular and the number 1 for the
\* boolean pidOn.
MistypedDoc ==
  [i \in 1..Len(SaveFields) |->
     CASE SaveFields[i] = "pidKpRegular" ->
            [v |-> << 104, 111, 116 >>, t |-> "text", k |-> KeyBytes[SaveFields[i]]]
       [] SaveFields[i] = "pidOn" ->
            [v |-> 10, t |-> "double", k |-> KeyBytes[SaveFields[i]]]
       [] OTHER -> DocOf(DefaultConfig)[i]]

MistypedRegion == RegionOf(serializeJson(MistypedDoc))

\* A region that holds a record saved earlier whose first byte was lost: no
\* marker at address 0, bytes of the old record behind any shorter one.
StaleRegion == [StoredRegion EXCEPT ![1] = BLANK]

\* A region that holds the encoding of the defaults and no NUL anywhere: the
\* byte behind the document is blank like the rest.
UnterminatedRegion ==
  [i \in 1..EEPROM_SIZE |->
     IF i <= Len(JsonStringOf(DefaultConfig)) THEN JsonStringOf(DefaultConfig)[i]
     ELSE BLANK]

InitialRegions ==
  {FilledRegion, StoredRegion, LegacyRegion, MistypedRegion, StaleRegion,
   UnterminatedRegion} \cup CorruptRegions

(***************************************************************************)
(* The state.                                                              *)
(***************************************************************************)
VARIABLES
  eeprom,        \* the driver's buffer of the region: what EEPROM.read() reads
  dirty,         \* whether the buffer holds bytes no EEPROM.commit() has flushed
  skipHeaterISR, \* the flag the heater interrupt handler checks
  stack,         \* the call stack: frames [fn, pc, config, returnCode]
  rv,            \* the value the callee just returned to the top frame
  out,           \* the caller's record passed to loadCoffeeConfig()
  lastOp,        \* the public function called last
  ret,           \* what it returned, << >> while it runs
  savedArg,      \* the record the caller passed, when lastOp is a save
  blankAtCall,   \* whether the region was blank when lastOp was called
  regionAtCall,  \* the bytes of the region when lastOp was called
  driverLog,     \* the driver calls of lastOp and their results, in order
  prev,          \* at a load or SetDefault: the call before it,
                 \* [op, arg, blank, clean]
  bytesRead,     \* the bytes the read loop of loadCoffeeConfig() collected
  flushBy,       \* the function whose EEPROM.commit() is in progress
  tick           \* what the latest heater interrupt did during lastOp

vars ==
  << eeprom, dirty, skipHeaterISR, stack, rv, out, lastOp, ret, savedArg,
     blankAtCall, regionAtCall, driverLog, prev, bytesRead, flushBy, tick >>

history == << lastOp, savedArg, blankAtCall, regionAtCall, prev, out, bytesRead >>

Frame(fn, pc) == [config |-> << >>, fn |-> fn, pc |-> pc, returnCode |-> 0]

Top == stack[Len(stack)]

Idle == stack = << >>

\* The top frame is fn's, about to execute line pc.
At_(fn, pc) == ~Idle /\ Top.fn = fn /\ Top.pc = pc /\ flushBy = "none"

Goto(pc) == [stack EXCEPT ![Len(stack)].pc = pc]

\* The top frame calls callee and continues at retpc when it returns.
CallFrom(retpc, callee) == Append(Goto(retpc), callee)

\* The top frame returns v: to its caller, or to the caller of the store.
Return(v) ==
  /\ stack' = SubSeq(stack, 1, Len(stack) - 1)
  /\ IF Len(stack) = 1
     THEN ret' = << v >> /\ rv' = << >>
     ELSE ret' = ret /\ rv' = << v >>

Init ==
  /\ eeprom \in InitialRegions
  /\ dirty = FALSE
  /\ skipHeaterISR = FALSE
  /\ stack = << >>
  /\ rv = << >>
  /\ out = << >>
  /\ lastOp = "boot"
  /\ ret = << >>
  /\ savedArg = << >>
  /\ blankAtCall = (eeprom = FilledRegion)
  /\ regionAtCall = eeprom
  /\ driverLog = << >>
  /\ prev = << >>
  /\ bytesRead = 0
  /\ flushBy = "none"
  /\ tick = "none"

(***************************************************************************)
(* The caller: calls of the public functions, one at a time.               *)
(***************************************************************************)
Enter(op, frame, o, arg) ==
  /\ Idle
  /\ stack' = << frame >>
  /\ lastOp' = op
  /\ ret' = << >>
  /\ rv' = << >>
  /\ driverLog' = << >>
  /\ blankAtCall' = (eeprom = FilledRegion)
  /\ regionAtCall' = eeprom
  /\ savedArg' = arg
  /\ out' = o
  /\ prev' = IF op \in {"loadCoffeeConfig", "SetDefault"}
             THEN << [op |-> lastOp, arg |-> savedArg, blank |-> blankAtCall,
                      clean |-> \A i \in 1..Len(driverLog) : driverLog[i].ok] >>
             ELSE << >>
  /\ bytesRead' = 0
  /\ tick' = "none"
  /\ UNCHANGED << eeprom, dirty, skipHeaterISR, flushBy >>

CallSetup == Enter("storageSetup", Frame("storageSetup", "65"), << >>, << >>)

CallFactoryReset ==
  Enter("storageFactoryReset", Frame("storageFactoryReset", "89"), << >>, << >>)

CallLoad ==
  Enter("loadCoffeeConfig", Frame("loadCoffeeConfig", "103"), << FreshConfig >>, << >>)

CallSave ==
  \E config \in InputConfigs \cup {OversizeConfig} :
    Enter("saveCoffeeConfig",
          [Frame("saveCoffeeConfig", "170") EXCEPT !.config = << config >>],
          << >>, << config >>)

CallSetDefault == Enter("SetDefault", Frame("SetDefault", "221"), << >>, << >>)

CallCommit == Enter("storageCommit", Frame("storageCommit", "266"), << >>, << >>)

CallValidate ==
  Enter("validateEEPROMData", Frame("validateEEPROMData", "29"), << >>, << >>)

(***************************************************************************)
(* validateEEPROMData(), called from outside the store                     *)
(***************************************************************************)
\* A check that goes on to the parse whatever the first byte is.
ValidateMarker_AlwaysParse ==
  /\ At_("validateEEPROMData", "29")
  /\ stack' = Goto("34")
  /\ UNCHANGED << eeprom, dirty, skipHeaterISR, flushBy, tick, driverLog, rv, ret, history >>

\* lines 29-32: read byte 0 and compare it with '{'
ValidateMarker ==
  /\ At_("validateEEPROMData", "29")
  /\ stack' = Goto(IF EepromRead(eeprom, 0) = MARKER THEN "34" ELSE "47")
  /\ UNCHANGED << eeprom, dirty, skipHeaterISR, flushBy, tick, driverLog, rv, ret, history >>

\* lines 34-41: deserialize the region, return true when there is no error
ValidateParse ==
  /\ At_("validateEEPROMData", "34")
  /\ IF ~deserializeJson(eeprom).error
     THEN Return(TRUE)
     ELSE stack' = Goto("47") /\ UNCHANGED << rv, ret >>
  /\ UNCHANGED << eeprom, dirty, skipHeaterISR, flushBy, tick, driverLog, history >>

\* line 47: return false
ValidateFalse ==
  /\ At_("validateEEPROMData", "47")
  /\ Return(FALSE)
  /\ UNCHANGED << eeprom, dirty, skipHeaterISR, flushBy, tick, driverLog, history >>

(***************************************************************************)
(* storageSetup()                                                          *)
(***************************************************************************)
\* A setup that goes on to the validity check whatever EEPROM.begin() said.
SetupBegin_IgnoreFailure ==
  /\ At_("storageSetup", "65")
  /\ \E ok \in BOOLEAN :
       driverLog' = Append(driverLog, [ok |-> ok, call |-> "begin", by |-> "storageSetup"])
  /\ stack' = Goto("70")
  /\ UNCHANGED << eeprom, dirty, skipHeaterISR, flushBy, tick, rv, ret, history >>

\* line 65: EEPROM.begin(EEPROM_SIZE) succeeds or fails
SetupBegin ==
  /\ At_("storageSetup", "65")
  /\ \E ok \in BOOLEAN :
       /\ driverLog' = Append(driverLog, [ok |-> ok, call |-> "begin", by |-> "storageSetup"])
       /\ IF ok
          THEN stack' = Goto("70") /\ UNCHANGED << rv, ret >>
          ELSE Return(FALSE)
  /\ UNCHANGED << eeprom, dirty, skipHeaterISR, flushBy, tick, history >>

\* A setup that resets and populates the defaults whatever the validity check
\* says.
SetupValidate_AlwaysReset ==
  /\ At_("storageSetup", "70")
  /\ stack' = CallFrom("75", Frame("storageFactoryReset", "89"))
  /\ UNCHANGED << eeprom, dirty, skipHeaterISR, flushBy, tick, driverLog, rv, ret, history >>

\* A setup that populates the defaults over whatever the invalid region holds,
\* without resetting it first.
SetupValidate_NoReset ==
  /\ At_("storageSetup", "70")
  /\ IF ~validateEEPROMData(eeprom)
     THEN /\ stack' = CallFrom("75r", Frame("SetDefault", "221"))
          /\ UNCHANGED << rv, ret >>
     ELSE Return(TRUE)
  /\ UNCHANGED << eeprom, dirty, skipHeaterISR, flushBy, tick, driverLog, history >>

\* lines 70-77: a valid region returns true; an invalid one is reset first
SetupValidate ==
  /\ At_("storageSetup", "70")
  /\ IF ~validateEEPROMData(eeprom)
     THEN /\ stack' = CallFrom("75", Frame("storageFactoryReset", "89"))
          /\ UNCHANGED << rv, ret >>
     ELSE Return(TRUE)
  /\ UNCHANGED << eeprom, dirty, skipHeaterISR, flushBy, tick, driverLog, history >>

\* line 75: the result of storageFactoryReset() is dropped, SetDefault() called
SetupSetDefault ==
  /\ At_("storageSetup", "75")
  /\ stack' = CallFrom("75r", Frame("SetDefault", "221"))
  /\ rv' = << >>
  /\ UNCHANGED << eeprom, dirty, skipHeaterISR, flushBy, tick, driverLog, ret, history >>

\* line 75: return SetDefault()
SetupReturn ==
  /\ At_("storageSetup", "75r")
  /\ Return(rv[1])
  /\ UNCHANGED << eeprom, dirty, skipHeaterISR, flushBy, tick, driverLog, history >>

(***************************************************************************)
(* storageFactoryReset()                                                   *)
(***************************************************************************)
\* A reset whose memset() covers the first sizeof(void*) bytes only.
ResetFill_PointerSize ==
  /\ At_("storageFactoryReset", "89")
  /\ eeprom' = [i \in 1..EEPROM_SIZE |-> IF i <= 4 THEN BLANK ELSE eeprom[i]]
  /\ dirty' = TRUE
  /\ stack' = CallFrom("90r", Frame("storageCommit", "266"))
  /\ UNCHANGED << skipHeaterISR, flushBy, tick, driverLog, rv, ret, history >>

\* lines 89-90: fill the region, call storageCommit()
ResetFill ==
  /\ At_("storageFactoryReset", "89")
  /\ eeprom' = FilledRegion
  /\ dirty' = TRUE
  /\ stack' = CallFrom("90r", Frame("storageCommit", "266"))
  /\ UNCHANGED << skipHeaterISR, flushBy, tick, driverLog, rv, ret, history >>

\* A reset that reports success whatever storageCommit() returned.
ResetReturn_AlwaysZero ==
  /\ At_("storageFactoryReset", "90r")
  /\ Return(0)
  /\ UNCHANGED << eeprom, dirty, skipHeaterISR, flushBy, tick, driverLog, history >>

\* line 90: return storageCommit()
ResetReturn ==
  /\ At_("storageFactoryReset", "90r")
  /\ Return(rv[1])
  /\ UNCHANGED << eeprom, dirty, skipHeaterISR, flushBy, tick, driverLog, history >>

(***************************************************************************)
(* EEPROM.commit(): the flush begins, is in progress, and returns.         *)
(***************************************************************************)
FlushBegin(fn, pc) ==
  /\ At_(fn, pc)
  /\ flushBy' = fn
  /\ UNCHANGED << eeprom, dirty, skipHeaterISR, stack, rv, ret, tick, driverLog, history >>

\* A flush that succeeds makes the bytes of the buffer durable; one that fails
\* leaves them unflushed.
FlushEnd(fn, ok) ==
  /\ ~Idle /\ Top.fn = fn /\ flushBy = fn
  /\ flushBy' = "none"
  /\ dirty' = IF ok THEN FALSE ELSE dirty
  /\ driverLog' = Append(driverLog, [ok |-> ok, call |-> "commit", by |-> fn])

(***************************************************************************)
(* storageCommit()                                                         *)
(***************************************************************************)
\* line 266
CommitRaise ==
  /\ At_("storageCommit", "266")
  /\ skipHeaterISR' = TRUE
  /\ stack' = Goto("269")
  /\ UNCHANGED << eeprom, dirty, flushBy, rv, ret, tick, driverLog, history >>

\* line 269: EEPROM.commit() is called
CommitFlush == FlushBegin("storageCommit", "269")

\* A commit whose returnCode is 0 whatever EEPROM.commit() said.
CommitFlushed_AlwaysZero ==
  \E ok \in BOOLEAN :
    /\ FlushEnd("storageCommit", ok)
    /\ stack' = [stack EXCEPT ![Len(stack)].pc = "271",
                              ![Len(stack)].returnCode = 0]
    /\ UNCHANGED << eeprom, skipHeaterISR, rv, ret, tick, history >>

\* line 269: EEPROM.commit() returns, returnCode is set
CommitFlushed ==
  \E ok \in BOOLEAN :
    /\ FlushEnd("storageCommit", ok)
    /\ stack' = [stack EXCEPT ![Len(stack)].pc = "271",
                              ![Len(stack)].returnCode = IF ok THEN 0 ELSE -1]
    /\ UNCHANGED << eeprom, skipHeaterISR, rv, ret, tick, history >>

\* A commit that lowers the flag on the success path only.
CommitLower_OnSuccessOnly ==
  /\ At_("storageCommit", "271")
  /\ skipHeaterISR' = (Top.returnCode # 0)
  /\ stack' = Goto("273")
  /\ UNCHANGED << eeprom, dirty, flushBy, rv, ret, tick, driverLog, history >>

\* line 271
CommitLower ==
  /\ At_("storageCommit", "271")
  /\ skipHeaterISR' = FALSE
  /\ stack' = Goto("273")
  /\ UNCHANGED << eeprom, dirty, flushBy, rv, ret, tick, driverLog, history >>

\* line 273
CommitReturn ==
  /\ At_("storageCommit", "273")
  /\ Return(Top.returnCode)
  /\ UNCHANGED << eeprom, dirty, skipHeaterISR, flushBy, tick, driverLog, history >>

(***************************************************************************)
(* saveCoffeeConfig()                                                      *)
(***************************************************************************)
\* lines 170-212: build the document, serialize it, write it and a NUL
SaveWriteBytes ==
  /\ At_("saveCoffeeConfig", "170")
  /\ \E config \in TextsRead(Top.config[1]) : eeprom' = SaveWrite(eeprom, config)
  /\ dirty' = TRUE
  /\ stack' = Goto("215")
  /\ UNCHANGED << skipHeaterISR, flushBy, rv, ret, tick, driverLog, history >>

\* A save that raises the flag for its own flush and leaves it raised.
SaveFlush_RaisesFlag ==
  /\ At_("saveCoffeeConfig", "215")
  /\ flushBy' = "saveCoffeeConfig"
  /\ skipHeaterISR' = TRUE
  /\ UNCHANGED << eeprom, dirty, stack, rv, ret, tick, driverLog, history >>

\* line 215: EEPROM.commit() is called
SaveFlush == FlushBegin("saveCoffeeConfig", "215")

\* line 215: EEPROM.commit() returns; its result is not looked at
SaveFlushed ==
  \E ok \in BOOLEAN :
    /\ FlushEnd("saveCoffeeConfig", ok)
    /\ stack' = Goto("217")
    /\ UNCHANGED << eeprom, skipHeaterISR, rv, ret, tick, history >>

\* line 217
SaveReturn ==
  /\ At_("saveCoffeeConfig", "217")
  /\ Return(TRUE)
  /\ UNCHANGED << eeprom, dirty, skipHeaterISR, flushBy, tick, driverLog, history >>

(***************************************************************************)
(* SetDefault()                                                            *)
(***************************************************************************)
\* lines 221-252: fill the local config, call saveCoffeeConfig(config)
SetDefaultSave ==
  /\ At_("SetDefault", "221")
  /\ stack' = CallFrom("252r",
                [Frame("saveCoffeeConfig", "170") EXCEPT !.config = << DefaultConfig >>])
  /\ rv' = << >>
  /\ UNCHANGED << eeprom, dirty, skipHeaterISR, flushBy, tick, driverLog, ret, history >>

\* line 252: return saveCoffeeConfig(config)
SetDefaultReturn ==
  /\ At_("SetDefault", "252r")
  /\ Return(rv[1])
  /\ UNCHANGED << eeprom, dirty, skipHeaterISR, flushBy, tick, driverLog, history >>

(***************************************************************************)
(* loadCoffeeConfig(config)                                                *)
(***************************************************************************)
\* A load that populates the defaults whatever the validity check says.
LoadValidate_AlwaysDefault ==
  /\ At_("loadCoffeeConfig", "103")
  /\ stack' = CallFrom("104r", Frame("SetDefault", "221"))
  /\ UNCHANGED << eeprom, dirty, skipHeaterISR, flushBy, tick, driverLog, rv, ret, history >>

\* lines 103-107: an invalid region: return SetDefault()
LoadValidate ==
  /\ At_("loadCoffeeConfig", "103")
  /\ IF ~validateEEPROMData(eeprom)
     THEN stack' = CallFrom("104r", Frame("SetDefault", "221"))
     ELSE stack' = Goto("110")
  /\ UNCHANGED << eeprom, dirty, skipHeaterISR, flushBy, tick, driverLog, rv, ret, history >>

\* line 104: return SetDefault()
LoadReturnDefault ==
  /\ At_("loadCoffeeConfig", "104r")
  /\ Return(rv[1])
  /\ UNCHANGED << eeprom, dirty, skipHeaterISR, flushBy, tick, driverLog, history >>

\* lines 110-160: read the string, deserialize it, assign the fields
LoadDecode ==
  /\ At_("loadCoffeeConfig", "110")
  /\ LET jsonDoc == deserializeJson(ReadJsonString(eeprom))
     IN  IF jsonDoc.error
         THEN Return(FALSE) /\ out' = out
         ELSE /\ Return(TRUE)
              /\ \E wild \in IF NullTextRead(jsonDoc.doc) THEN {<< >>, << 63 >>} ELSE {<< >>} :
                   out' = << ExtractConfig(jsonDoc.doc, wild) >>
  /\ bytesRead' = Len(ReadJsonString(eeprom))
  /\ UNCHANGED << eeprom, dirty, skipHeaterISR, flushBy, tick, driverLog,
                  lastOp, savedArg, blankAtCall, regionAtCall, prev >>

(***************************************************************************)
(* The heater interrupt: it may fire between any two steps.  It skips its  *)
(* work when skipHeaterISR is set and does it otherwise.                   *)
(***************************************************************************)
HeaterISR ==
  /\ tick' = IF skipHeaterISR THEN "skipped"
             ELSE IF flushBy # "none" THEN "ran during flush"
             ELSE "ran"
  /\ UNCHANGED << eeprom, dirty, skipHeaterISR, stack, rv, ret, flushBy, driverLog, history >>

Next ==
  \/ CallSetup \/ CallFactoryReset \/ CallLoad \/ CallSave \/ CallSetDefault
  \/ CallCommit \/ CallValidate
  \/ ValidateMarker \/ ValidateParse \/ ValidateFalse
  \/ SetupBegin \/ SetupValidate \/ SetupSetDefault \/ SetupReturn
  \/ ResetFill \/ ResetReturn
  \/ CommitRaise \/ CommitFlush \/ CommitFlushed \/ CommitLower \/ CommitReturn
  \/ SaveWriteBytes \/ SaveFlush \/ SaveFlushed \/ SaveReturn
  \/ SetDefaultSave \/ SetDefaultReturn
  \/ LoadValidate \/ LoadReturnDefault \/ LoadDecode
  \/ HeaterISR

Spec == Init /\ [][Next]_vars

(***************************************************************************)
(* Vocabulary of the properties.                                           *)
(***************************************************************************)
\* The public call lastOp has returned.
Returned(op) == Idle /\ lastOp = op /\ ret # << >>

\* Every driver call of the log succeeded.
Clean(log) == \A i \in 1..Len(log) : log[i].ok

\* The flushes of the log.
Flushes(log) == SelectSeq(log, LAMBDA e : e.call = "commit")

\* The record holds the compiled-in default in every field that has one.
DefaultsIn(config) == \A f \in DOMAIN DefaultConfig : config[f] = DefaultConfig[f]

\* Every byte of the region is the blank pattern.
AllBlank(region) == \A i \in 1..EEPROM_SIZE : region[i] = BLANK

\* The region is one of the truncated or overwritten encodings: its first
\* byte is the marker, its body is not a JSON object.
IsCorrupt(region) == EepromRead(region, 0) = MARKER /\ region \in CorruptRegions

\* The call of loadCoffeeConfig() in progress or just returned went through
\* SetDefault() / through the decode of the stored string.
LoadTookDefault ==
  /\ lastOp = "loadCoffeeConfig"
  /\ IF Idle THEN driverLog # << >> ELSE stack[1].pc = "104r"

LoadTookDecode ==
  /\ lastOp = "loadCoffeeConfig"
  /\ IF Idle THEN driverLog = << >> ELSE stack[1].pc = "110"

\* The document loadCoffeeConfig() decodes from the region.
StoredDoc(region) == deserializeJson(ReadJsonString(region)).doc

\* The fields of the record whose member in the stored document holds a value
\* of another type than the field's.
MistypedFields(region) ==
  LET doc == StoredDoc(region)
  IN  {f \in ConfigFields :
         \E i \in 1..Len(doc) : doc[i].k = KeyBytes[f] /\ doc[i].t # FieldType[f]}

\* The fields of the record whose member the stored document lacks.
AbsentFields(region) ==
  LET doc  == StoredDoc(region)
      keys == {doc[i].k : i \in 1..Len(doc)}
  IN  {f \in ConfigFields : KeyBytes[f] \notin keys}

(***************************************************************************)
(* C1: guard discipline of storageCommit().  While the EEPROM.commit() of  *)
(* storageCommit() is in progress skipHeaterISR is set, and once the       *)
(* statement after the flush has run (line 271, storageCommit() at its     *)
(* return) it is clear, whether the flush succeeded or failed.             *)
(***************************************************************************)
C1_GuardDiscipline ==
  /\ flushBy = "storageCommit" => skipHeaterISR
  /\ At_("storageCommit", "273") => ~skipHeaterISR

\* storageCommit() is about to return -1: the flush failed, the flag is clear.
C1_Witness ==
  /\ At_("storageCommit", "273")
  /\ Top.returnCode = -1
  /\ driverLog[Len(driverLog)] = [ok |-> FALSE, call |-> "commit", by |-> "storageCommit"]
  /\ ~skipHeaterISR

(***************************************************************************)
(* C2: every EEPROM.commit() in progress was called by storageCommit().    *)
(* The code contradicts it: saveCoffeeConfig() calls EEPROM.commit()       *)
(* itself at line 215.                                                     *)
(***************************************************************************)
C2_CommitIsSoleFlusher == flushBy \in {"none", "storageCommit"}

(***************************************************************************)
(* C3: no heater interrupt does its work while an EEPROM.commit() is in    *)
(* progress.  The code contradicts it: the flush of saveCoffeeConfig()     *)
(* runs with skipHeaterISR clear.                                          *)
(***************************************************************************)
C3_NoTickDuringFlush == tick # "ran during flush"

(***************************************************************************)
(* C4: saveCoffeeConfig(), and SetDefault() which returns its result,      *)
(* return true exactly when the flush of that save succeeded.  The code    *)
(* contradicts it: line 217 returns true whatever EEPROM.commit() said.    *)
(***************************************************************************)
C4_SaveReturnsFlushResult ==
  \A op \in {"SetDefault", "saveCoffeeConfig"} :
    Returned(op) => ret[1] = Flushes(driverLog)[1].ok

(***************************************************************************)
(* C5: a load that directly follows saveCoffeeConfig(r) returns true and   *)
(* leaves the caller's record equal to r in every field.  The code         *)
(* contradicts it: loadCoffeeConfig() reads the member freeToUse10, which  *)
(* saveCoffeeConfig() never writes.                                        *)
(***************************************************************************)
C5_SaveLoadRoundTrip ==
  (Returned("loadCoffeeConfig") /\ prev[1].op = "saveCoffeeConfig"
     /\ ~Oversize(prev[1].arg[1]))
    => ret[1] = TRUE /\ out = prev[1].arg

(***************************************************************************)
(* C6: a load of an invalid region whose flush succeeds leaves the         *)
(* caller's record equal to the defaults and the region holding the        *)
(* encoded defaults.  The code contradicts the first half: on this path    *)
(* loadCoffeeConfig() returns SetDefault() and never assigns config.       *)
(***************************************************************************)
C6_LoadInvalidYieldsDefaults ==
  (Returned("loadCoffeeConfig") /\ LoadTookDefault /\ Clean(driverLog))
    => /\ DefaultsIn(out[1])
       /\ validateEEPROMData(eeprom)
       /\ ReadJsonString(eeprom) = JsonStringOf(DefaultConfig)

(***************************************************************************)
(* C7: storageSetup() returns true only with a usable region: one that     *)
(* validateEEPROMData() accepts and, where setup wrote it, whose bytes a   *)
(* flush made durable.  The code contradicts it: the result of the flush   *)
(* of the default save is dropped (C4), so setup returns true after it     *)
(* failed.                                                                 *)
(***************************************************************************)
C7_SetupTruthful ==
  (Returned("storageSetup") /\ ret[1] = TRUE)
    => /\ validateEEPROMData(eeprom)
       /\ Flushes(driverLog) # << >> => ~dirty

(***************************************************************************)
(* C8: when storageFactoryReset() has returned, every byte of the region   *)
(* is 0xFF and validateEEPROMData() rejects it, and a load that directly   *)
(* follows it goes through SetDefault(), never through the decode.         *)
(***************************************************************************)
C8_FactoryResetInvalidates ==
  /\ Returned("storageFactoryReset")
       => AllBlank(eeprom) /\ ~validateEEPROMData(eeprom)
  /\ (lastOp = "loadCoffeeConfig" /\ prev[1].op = "storageFactoryReset")
       => ~LoadTookDecode

\* A load after a factory reset has gone through SetDefault() and returned.
C8_Witness ==
  /\ Returned("loadCoffeeConfig")
  /\ prev[1].op = "storageFactoryReset"
  /\ ~prev[1].blank
  /\ LoadTookDefault

(***************************************************************************)
(* C9: a region with the marker byte and a truncated or overwritten body   *)
(* is rejected by validateEEPROMData(); loadCoffeeConfig() never reaches   *)
(* the decode with such a region, and on the path through SetDefault() the *)
(* caller's record is not written.                                         *)
(***************************************************************************)
C9_CorruptIsNeverDecoded ==
  /\ IsCorrupt(eeprom) => ~validateEEPROMData(eeprom)
  /\ (~Idle /\ stack[1].fn = "loadCoffeeConfig" /\ stack[1].pc = "110")
       => ~IsCorrupt(eeprom)
  /\ LoadTookDefault => out = << FreshConfig >>

\* loadCoffeeConfig() has met a corrupt region and called SetDefault().
C9_Witness ==
  /\ LoadTookDefault
  /\ ~Idle
  /\ IsCorrupt(eeprom)
  /\ out = << FreshConfig >>

C11_MissingFieldsGetDefaults ==
  (Returned("loadCoffeeConfig") /\ LoadTookDecode /\ ret[1] = TRUE)
    => \A f \in AbsentFields(eeprom) \cap DOMAIN DefaultConfig :
         out[1][f] = DefaultConfig[f]

(***************************************************************************)
(* C12: saveCoffeeConfig() of a record with a text longer than its field   *)
(* writes no byte, starts no flush and returns false.  The code contradicts*)
(* it: saveCoffeeConfig() checks no length; it writes and flushes what it  *)
(* reads from the array and returns true.                                  *)
(***************************************************************************)
C12_OversizeRejected ==
  (lastOp = "saveCoffeeConfig" /\ Oversize(savedArg[1]))
    => /\ eeprom = regionAtCall
       /\ flushBy = "none" /\ driverLog = << >>
       /\ Returned("saveCoffeeConfig") => ret[1] = FALSE

(***************************************************************************)
(* C13: when EEPROM.begin() has failed, storageSetup() has returned false  *)
(* at once: it made no other driver call (no flush), the region holds the  *)
(* bytes it held at the call, skipHeaterISR is clear as it was, and no     *)
(* step of the validity check or of a reset was taken.                     *)
(***************************************************************************)
C13_SetupFailsFast ==
  (lastOp = "storageSetup" /\ driverLog # << >> /\ ~driverLog[1].ok)
    => /\ Idle /\ ret = << FALSE >>
       /\ Len(driverLog) = 1
       /\ eeprom = regionAtCall
       /\ ~skipHeaterISR /\ flushBy = "none"

\* storageSetup() has returned false on a corrupt region, which it left as
\* it was.
C13_Witness ==
  /\ Returned("storageSetup") /\ ret[1] = FALSE
  /\ driverLog = << [ok |-> FALSE, call |-> "begin", by |-> "storageSetup"] >>
  /\ IsCorrupt(regionAtCall) /\ eeprom = regionAtCall

(***************************************************************************)
(* C14: storageFactoryReset() flushes once, through storageCommit() and    *)
(* after the whole region has been filled with 0xFF, and returns 0 when    *)
(* that flush succeeded and a negative value when it failed.               *)
(***************************************************************************)
C14_FactoryResetStatus ==
  /\ (lastOp = "storageFactoryReset" /\ flushBy # "none")
       => AllBlank(eeprom) /\ driverLog = << >> /\ flushBy = "storageCommit"
  /\ Returned("storageFactoryReset")
       => /\ Len(driverLog) = 1 /\ driverLog[1].call = "commit"
          /\ driverLog[1].ok => ret[1] = 0
          /\ ~driverLog[1].ok => ret[1] < 0

\* storageFactoryReset() has filled a region that was not blank, its flush
\* failed, and it returned a negative value.
C14_Witness ==
  /\ Returned("storageFactoryReset")
  /\ ~blankAtCall /\ AllBlank(eeprom)
  /\ ~driverLog[1].ok /\ ret[1] < 0

(***************************************************************************)
(* C15: storageCommit() calls EEPROM.commit() once and returns 0 when it   *)
(* reported success and -1 when it reported failure.                       *)
(***************************************************************************)
C15_CommitStatus ==
  /\ lastOp = "storageCommit" => Len(driverLog) <= 1
  /\ Returned("storageCommit")
       => /\ Len(driverLog) = 1 /\ driverLog[1].call = "commit"
          /\ ret[1] = IF driverLog[1].ok THEN 0 ELSE -1

\* storageCommit() has returned -1 and the written bytes are still unflushed.
C15_Witness ==
  /\ Returned("storageCommit")
  /\ ret = << -1 >> /\ dirty
  /\ driverLog = << [ok |-> FALSE, call |-> "commit", by |-> "storageCommit"] >>

(***************************************************************************)
(* C16: a SetDefault() that directly follows a SetDefault() leaves the     *)
(* region with the bytes it held when the first had returned; when the     *)
(* flushes of both succeeded, those bytes are flushed.                     *)
(***************************************************************************)
C16_SetDefaultIdempotent ==
  (Returned("SetDefault") /\ prev[1].op = "SetDefault")
    => /\ eeprom = regionAtCall
       /\ (prev[1].clean /\ Clean(driverLog)) => ~dirty

\* The second of two SetDefault() calls has returned, on a region that was
\* not blank before the first and still holds bytes of an older, longer record
\* behind the encoded defaults.
C16_Witness ==
  /\ Returned("SetDefault") /\ prev[1].op = "SetDefault"
  /\ ~prev[1].blank
  /\ ReadJsonString(eeprom) = JsonStringOf(DefaultConfig)
  /\ eeprom # RegionOf(JsonStringOf(DefaultConfig))

(***************************************************************************)
(* The decode of loadCoffeeConfig() and the parse of validateEEPROMData()  *)
(* read the same bytes with the same parser: whenever loadCoffeeConfig()   *)
(* stands before its decode (line 110), the decode succeeds, so the branch *)
(* of lines 123-126 (return false, config untouched) is never taken.       *)
(***************************************************************************)
DecodeAgreesWithValidate ==
  (~Idle /\ Top.fn = "loadCoffeeConfig" /\ Top.pc = "110")
    => ~deserializeJson(ReadJsonString(eeprom)).error

(***************************************************************************)
(* C18: when the stored document holds a value of the wrong type for a     *)
(* field, loadCoffeeConfig() does not return true with a value made up for *)
(* that field: it reports the error or falls back to the defaults.  The    *)
(* code contradicts it: as<double>() turns a text that is no number into 0 *)
(* and as<bool>() a number into "not zero", and load returns true.         *)
(***************************************************************************)
C18_TypeMismatchIsError ==
  (Returned("loadCoffeeConfig") /\ LoadTookDecode /\ MistypedFields(eeprom) # {})
    => ret[1] = FALSE \/ DefaultsIn(out[1])

(***************************************************************************)
(* C19: when saveCoffeeConfig() has returned true, the region holds from   *)
(* address 0 a well-formed document with every field of the record in it,  *)
(* then a NUL below address 4096, and the document is no longer than the   *)
(* 512 bytes of JSON_BUFFER_SIZE.  The code contradicts it: the document   *)
(* never holds freeToUse10, it is longer than 512 bytes already for the    *)
(* defaults, and saveCoffeeConfig() returns true in every case.            *)
(***************************************************************************)
C19_EncodeComplete ==
  (Returned("saveCoffeeConfig") /\ ret[1] = TRUE)
    => LET jsonString == ReadJsonString(eeprom)
           jsonDoc    == deserializeJson(jsonString)
       IN  /\ Len(jsonString) < EEPROM_SIZE
           /\ ~jsonDoc.error
           /\ \A f \in ConfigFields :
                LET m == Member(jsonDoc.doc, f)
                IN  m.t = FieldType[f] /\ m.v = savedArg[1][f]
           /\ Len(jsonString) <= JSON_BUFFER_SIZE

(***************************************************************************)
(* C20: validateEEPROMData() changes no byte of the region, makes no       *)
(* driver call, flushes nothing and leaves skipHeaterISR lowered; it is at *)
(* the parse only when byte 0 is the marker; and it returns true exactly   *)
(* when byte 0 is the marker and the stored bytes parse.                   *)
(***************************************************************************)
C20_ValidateReadOnly ==
  lastOp = "validateEEPROMData"
    => /\ eeprom = regionAtCall
       /\ driverLog = << >> /\ flushBy = "none" /\ ~skipHeaterISR
       /\ (~Idle /\ Top.pc = "34") => EepromRead(eeprom, 0) = MARKER
       /\ Returned("validateEEPROMData")
            => ret[1] = (/\ EepromRead(regionAtCall, 0) = MARKER
                         /\ ~deserializeJson(regionAtCall).error)

\* The check has returned false for a region that begins with the marker:
\* the parse was made and failed.
C20_Witness ==
  /\ Returned("validateEEPROMData") /\ ret[1] = FALSE
  /\ EepromRead(eeprom, 0) = MARKER /\ eeprom = regionAtCall

(***************************************************************************)
(* C21: in a storageSetup() that found the region invalid, the defaults    *)
(* are built and written only after the whole region was filled with the   *)
(* blank pattern and storageCommit() flushed it; and when every driver     *)
(* call of that setup succeeded, the region at its return is the encoding  *)
(* of the defaults, one NUL, and the blank pattern up to the capacity, all *)
(* of it flushed.                                                          *)
(***************************************************************************)
C21_SetupResetsFirst ==
  lastOp = "storageSetup"
    => /\ (~Idle /\ Top.fn \in {"SetDefault", "saveCoffeeConfig"} /\ Top.pc \in {"170", "221"})
            => /\ AllBlank(eeprom)
               /\ Len(driverLog) = 2
               /\ driverLog[2].call = "commit" /\ driverLog[2].by = "storageCommit"
       /\ (Returned("storageSetup") /\ Len(driverLog) > 1 /\ Clean(driverLog))
            => /\ ~validateEEPROMData(regionAtCall)
               /\ Len(driverLog) = 3
               /\ eeprom = RegionOf(JsonStringOf(DefaultConfig))
               /\ ~dirty /\ ret[1] = TRUE

\* A setup has returned on a region that had lost its marker and held bytes
\* of an old record behind the place where the defaults end.
C21_Witness ==
  /\ Returned("storageSetup") /\ regionAtCall = StaleRegion
  /\ Len(driverLog) = 3 /\ Clean(driverLog)
  /\ regionAtCall[Len(JsonStringOf(DefaultConfig)) + 2] # BLANK
  /\ eeprom = RegionOf(JsonStringOf(DefaultConfig))

(***************************************************************************)
(* The statements a function still has to execute from line pc on, those   *)
(* of the functions it calls from there included, on its longest path; 0   *)
(* for a line that is none of its resumption points.                       *)
(***************************************************************************)
Remaining(fn, pc) ==
  CASE fn = "validateEEPROMData" ->
         (CASE pc = "29" -> 3 [] pc = "34" -> 2 [] pc = "47" -> 1 [] OTHER -> 0)
    [] fn = "storageSetup" ->
         (CASE pc = "65" -> 17 [] pc = "70" -> 16 [] pc = "75" -> 8
            [] pc = "75r" -> 1 [] OTHER -> 0)
    [] fn = "storageFactoryReset" ->
         (CASE pc = "89" -> 7 [] pc = "90r" -> 1 [] OTHER -> 0)
    [] fn = "storageCommit" ->
         (CASE pc = "266" -> 5 [] pc = "269" -> 4 [] pc = "271" -> 2
            [] pc = "273" -> 1 [] OTHER -> 0)
    [] fn = "saveCoffeeConfig" ->
         (CASE pc = "170" -> 4 [] pc = "215" -> 3 [] pc = "217" -> 1 [] OTHER -> 0)
    [] fn = "SetDefault" ->
         (CASE pc = "221" -> 6 [] pc = "252r" -> 1 [] OTHER -> 0)
    [] fn = "loadCoffeeConfig" ->
         (CASE pc = "103" -> 8 [] pc = "110" -> 1 [] pc = "104r" -> 1 [] OTHER -> 0)
    [] OTHER -> 0

RECURSIVE RemainingOf(_)
RemainingOf(frames) ==
  IF frames = << >> THEN 0
  ELSE Remaining(Head(frames).fn, Head(frames).pc) + RemainingOf(Tail(frames))

\* The statements the call in progress still has to execute at most; a flush
\* that has begun has one less to go.
Rank == RemainingOf(stack) - (IF flushBy # "none" THEN 1 ELSE 0)

\* The function on top of the stack has a statement to execute: it stands at
\* one of its lines, with the result of its callee where it resumes after a
\* call, or its flush is in progress.
Runnable ==
  /\ Remaining(Top.fn, Top.pc) > 0
  /\ flushBy # "none" => Top.fn = flushBy /\ Top.pc \in {"269", "215"}
  /\ Top.pc \in {"75r", "90r", "252r", "104r"} => rv # << >>

(***************************************************************************)
(* C22: a loadCoffeeConfig() that decodes has read the bytes from address  *)
(* 0 up to the first NUL, and all 4096 and no more when the region holds   *)
(* no NUL; and every call of a public function terminates: while it runs   *)
(* it has a statement to execute, and every step of it other than the      *)
(* heater interrupt brings it nearer to its return.                        *)
(***************************************************************************)
C22_LoadReadBounded ==
  /\ [](Returned("loadCoffeeConfig") /\ LoadTookDecode
          => /\ bytesRead <= EEPROM_SIZE
             /\ \A i \in 1..bytesRead : regionAtCall[i] # NUL
             /\ bytesRead < EEPROM_SIZE => regionAtCall[bytesRead + 1] = NUL)
  /\ [](~Idle => Runnable)
  /\ [][~Idle => \/ Rank' < Rank /\ Rank' >= 0
                 \/ UNCHANGED << stack, flushBy, eeprom, driverLog >>]_vars

\* A load has returned that found no NUL in a valid region and read all of
\* its bytes.
C22_Witness ==
  /\ Returned("loadCoffeeConfig") /\ LoadTookDecode /\ ret[1] = TRUE
  /\ \A i \in 1..EEPROM_SIZE : regionAtCall[i] # NUL
  /\ bytesRead = EEPROM_SIZE

\* A call of storageCommit() is in progress: one of the frames is its.
InCommit == \E i \in 1..Len(stack) : stack[i].fn = "storageCommit"

(***************************************************************************)
(* C23: skipHeaterISR is clear in every state in which no storageCommit()  *)
(* is in progress, so at the return of every public function whatever the  *)
(* driver reported; and every step that changes the flag is a step of      *)
(* storageCommit().                                                        *)
(***************************************************************************)
C23_FlagNeverLeftRaised ==
  /\ [](~InCommit => ~skipHeaterISR)
  /\ [][skipHeaterISR' # skipHeaterISR
          => ~Idle /\ Top.fn = "storageCommit" /\ Top.pc \in {"266", "271"}]_vars

\* A setup has returned whose reset could not be flushed: the flag was raised
\* and lowered by the storageCommit() of the reset, and the save of the
\* defaults that followed flushed with the flag clear.
C23_Witness ==
  /\ Returned("storageSetup") /\ Len(driverLog) = 3
  /\ driverLog[2] = [ok |-> FALSE, call |-> "commit", by |-> "storageCommit"]
  /\ driverLog[3].by = "saveCoffeeConfig"
  /\ tick = "ran during flush" /\ ~skipHeaterISR

(***************************************************************************)
(* C24: a saveCoffeeConfig(config), called from outside or by SetDefault(),*)
(* whose document has n bytes changes no byte of the region at an address  *)
(* above n: once it has written, addresses 0..n-1 hold the document,       *)
(* address n holds the NUL, and every byte above is the byte that was      *)
(* there at the call.                                                      *)
(***************************************************************************)
C24_SaveWritesPrefixOnly ==
  lastOp \in {"SetDefault", "saveCoffeeConfig"}
    => \/ eeprom = regionAtCall
       \/ \E config \in (IF lastOp = "SetDefault" THEN {DefaultConfig}
                          ELSE TextsRead(savedArg[1])) :
            LET jsonString == JsonStringOf(config)
                n == Len(jsonString)
            IN  /\ n < EEPROM_SIZE
                /\ SubSeq(eeprom, 1, n) = jsonString
                /\ eeprom[n + 1] = NUL
                /\ SubSeq(eeprom, n + 2, EEPROM_SIZE)
                     = SubSeq(regionAtCall, n + 2, EEPROM_SIZE)

\* A save has returned that wrote a shorter document over a longer one: the
\* last bytes of the old document are still behind the new terminator.
C24_Witness ==
  /\ Returned("saveCoffeeConfig") /\ regionAtCall = StoredRegion
  /\ savedArg = << TestConfig(1) >>
  /\ LET n == Len(JsonStringOf(TestConfig(1)))
     IN  /\ eeprom[n + 1] = NUL /\ regionAtCall[n + 1] # NUL
         /\ eeprom[n + 2] = regionAtCall[n + 2]
         /\ eeprom[n + 2] \notin {BLANK, NUL}

(***************************************************************************)
(* C25: a loadCoffeeConfig() called on a region that validateEEPROMData()  *)
(* accepts writes no byte of the region, calls neither SetDefault() nor    *)
(* saveCoffeeConfig(), and makes no driver call; a load changes the region *)
(* or flushes only when the region was invalid at the call.                *)
(***************************************************************************)
C25_LoadValidIsPureRead ==
  lastOp = "loadCoffeeConfig"
    => \/ /\ eeprom = regionAtCall
          /\ driverLog = << >> /\ flushBy = "none"
          /\ \A i \in 1..Len(stack) : stack[i].fn = "loadCoffeeConfig"
       \/ ~validateEEPROMData(regionAtCall)

\* A load has decoded a valid region while the buffer held bytes that an
\* earlier failed flush had left unflushed: they are unflushed still.
C25_Witness ==
  /\ Returned("loadCoffeeConfig") /\ validateEEPROMData(regionAtCall)
  /\ ret[1] = TRUE /\ bytesRead > 0
  /\ dirty /\ eeprom = regionAtCall /\ driverLog = << >>

(***************************************************************************)
(* C26: a storageSetup() whose EEPROM.begin() succeeded on a region that   *)
(* validateEEPROMData() accepts returns true, and it writes or blanks no   *)
(* byte of the region, calls no other function of the store and makes no   *)
(* driver call but the begin: what was saved is there after the setup.     *)
(***************************************************************************)
C26_SetupPreservesValid ==
  lastOp = "storageSetup"
    => \/ /\ eeprom = regionAtCall
          /\ Len(driverLog) <= 1 /\ flushBy = "none"
          /\ \A i \in 1..Len(stack) : stack[i].fn = "storageSetup"
          /\ (Idle /\ driverLog[1].ok) => ret = << TRUE >>
       \/ ~validateEEPROMData(regionAtCall)

\* A setup has returned true on a region that holds a record a caller had
\* saved: the document of that record is still what the region holds.
C26_Witness ==
  /\ Returned("storageSetup") /\ ret = << TRUE >>
  /\ driverLog = << [ok |-> TRUE, call |-> "begin", by |-> "storageSetup"] >>
  /\ eeprom = regionAtCall
  /\ ReadJsonString(eeprom) = JsonStringOf(TestConfig(1))

=============================================================================
